---- MODULE Spec2Model ----
(***************************************************************************)
(* Model of the Telegram music bot of src/bot-yt.py.                       *)
(*                                                                         *)
(* The bot is built by main() with Application.builder().token().build()   *)
(* (no concurrent_updates), and every handler is registered blocking, so   *)
(* the application takes one update at a time from its queue and runs its  *)
(* handler to the end before it takes the next.  The resolver calls        *)
(* (ydl.extract_info, ydl.download) are plain synchronous calls inside the *)
(* coroutines.  The state is: the per-user user_data['search_results']     *)
(* (session), the files of the downloads directory (files), the queue of   *)
(* updates not yet taken up (pending) and the handler in progress (h).     *)
(*                                                                         *)
(* Strings are sequences of one-character strings.  Text messages to the   *)
(* user are taken to succeed except where noted; reply_audio, os.rename,   *)
(* the resolver calls and the Markdown result message may fail.            *)
(***************************************************************************)
EXTENDS Integers, Sequences, FiniteSets, TLC

\* ---------------------------------------------------------------- bounds
MaxUpdates == 3      \* updates that arrive in one behaviour
MaxPending == 2      \* updates waiting in the application's queue
MaxEntries == 1      \* entries in one resolver answer
MaxTail == 2         \* entries after the leading ones of a long answer
MaxTracks == 3       \* tracks generated by the mock service
MaxTitleLen == 3     \* characters of a title, the filling letters apart

\* ------------------------------------------------------ program constants
MIN_QUERY_LEN == 2
AGE_RESTRICTED == 18
MAX_RESULTS == 10
FILENAME_MAX == 80
TAG_MAX == 64

Convs == {"c1", "c2"}

\* Absent values, each of the type of the values it stands beside.
NoId == <<"None">>           \* entry.get('id') is None or ''
NoTitle == <<"None">>        \* entry['title'] is None
NoFile == <<"NoFile">>       \* no such file (as a file content or a path)
NoCand == [id |-> NoId, title |-> NoTitle, channel |-> "none"]
NoSession == [present |-> FALSE, list |-> <<>>]   \* no 'search_results' key
NoScreen == <<>>             \* no result message yet: no buttons
NoDelivery == [audio |-> NoFile, title |-> <<>>, performer |-> "none"]
\* no request answered yet
NoResponse == [path |-> "none", requested |-> 0, status |-> 0,
               success |-> FALSE, duration |-> 0]
\* no function called yet
NoCall == [fn |-> "none", arg |-> <<>>, result |-> <<>>]

\* -------------------------------------------------------- string helpers
Min(a, b) == IF a < b THEN a ELSE b

Take(s, n) == SubSeq(s, 1, Min(n, Len(s)))

Forbidden == {"\\", "/", ":", "*", "?", "\"", "<", ">", "|"}

Whitespace == {" ", "\t", "\n"}

RECURSIVE LStrip(_)
LStrip(s) ==
    IF s # <<>> /\ Head(s) \in Whitespace THEN LStrip(Tail(s)) ELSE s

RECURSIVE RStrip(_)
RStrip(s) ==
    IF s # <<>> /\ s[Len(s)] \in Whitespace
    THEN RStrip(SubSeq(s, 1, Len(s) - 1)) ELSE s

Strip(s) == RStrip(LStrip(s))

\* re.sub(r'\s+', ' ', s): every run of whitespace becomes one blank
CollapseWs(s) ==
    LET first == SelectSeq([k \in 1..Len(s) |-> k],
                   LAMBDA k : \/ s[k] \notin Whitespace
                              \/ k = 1
                              \/ s[k - 1] \notin Whitespace)
    IN  [j \in 1..Len(first) |->
            IF s[first[j]] \in Whitespace THEN " " ELSE s[first[j]]]

Placeholder == <<"a", "u", "d", "i", "o">>

\* (an allowlist of Latin letters instead of the denylist)
safe_title_filename_latin(title) ==
    LET t1 == SelectSeq(title,
                LAMBDA ch : ch \in {"k", "t", "a"} \cup Whitespace)
        t2 == Strip(CollapseWs(t1))
    IN  IF t2 # <<>> THEN Take(t2, FILENAME_MAX) ELSE Placeholder

\* lines 280-285
safe_title_filename(title) ==
    LET t1 == SelectSeq(title, LAMBDA ch : ch \notin Forbidden)
        t2 == Strip(CollapseWs(t1))
    IN  IF t2 # <<>> THEN Take(t2, FILENAME_MAX) ELSE Placeholder

\* ------------------------------------------------ the resolver's catalogue
IdA == <<"a">>
IdB == <<"b">>
Ids == {IdA, IdB}

\* null: the entry itself is None (ignoreerrors leaves such holes)
EntryA == [null |-> FALSE, id |-> IdA, title |-> <<"t", "/">>,
           uploader |-> "u1", age_limit |-> 0]
EntryB == [null |-> FALSE, id |-> IdB, title |-> <<" ", "a">>,
           uploader |-> "u2", age_limit |-> 0]
EntryAdult == [null |-> FALSE, id |-> IdB, title |-> <<"x">>,
               uploader |-> "u2", age_limit |-> 18]
EntryNoId == [null |-> FALSE, id |-> NoId, title |-> <<"x">>,
              uploader |-> "u1", age_limit |-> 0]
EntryNoTitle == [null |-> FALSE, id |-> IdA, title |-> NoTitle,
                 uploader |-> "u1", age_limit |-> 0]
NoEntry == [null |-> TRUE, id |-> NoId, title |-> NoTitle,
            uploader |-> "none", age_limit |-> 0]

Catalog == {EntryA, EntryB, EntryAdult, EntryNoId, EntryNoTitle, NoEntry}

SeqsUpTo(S, n) == UNION {[1..k -> S] : k \in 0..n}

ResolverAnswers == SeqsUpTo(Catalog, MaxEntries)

Queries == {<<" ", "a", " ">>, <<"a", "b">>}

Indices == (0 - 1)..MaxEntries

\* the names <name>.mp3 that can appear in downloads/
Names == Ids \cup {safe_title_filename(e.title) :
                     e \in {x \in Catalog : x.title # NoTitle}}

\* ----------------------------------------------------------------- state
VARIABLES
    session,            \* conversation -> NoSession or list of candidates
    screen,             \* conversation -> result message last presented
    fresh,              \* conversation -> its session was last stored by the
                        \*   search that presented the message on screen
    files,              \* file name in downloads/ -> id whose audio it holds
    pending,            \* updates received and not yet taken up
    arrivals,           \* number of updates received so far
    h,                  \* the handler in progress (or the last one finished)
    fetchedDelivered,   \* ids fetched and then delivered by one selection
    fetchedSendFailed,  \* ids fetched whose send then failed
    api,                \* FastAPI.py: generated_tracks, track_counter, the
                        \*   temporary files and the last response
    call                \* the last call of a function taken on its own:
                        \*   its name, its argument and what it returned

vars == <<session, screen, fresh, files, pending, arrivals, h,
          fetchedDelivered, fetchedSendFailed, api, call>>

Idle ==
    [kind |-> "none", conv |-> "c1", pc |-> "idle", index |-> 0,
     shown |-> NoCand, stale |-> FALSE,
     noSession |-> FALSE, sessLen |-> 0,
     video |-> NoCand, hit |-> FALSE, dup |-> FALSE, fetched |-> "no",
     path |-> NoFile, clean |-> <<>>, sent |-> "no", delivered |-> NoDelivery,
     raised |-> "none", msgs |-> {}]

Init ==
    /\ session = [c \in Convs |-> NoSession]
    /\ screen = [c \in Convs |-> NoScreen]
    /\ fresh = [c \in Convs |-> FALSE]
    /\ files = [n \in Names |-> NoFile]
    /\ pending = <<>>
    /\ arrivals = 0
    /\ h = Idle
    /\ fetchedDelivered = {}
    /\ fetchedSendFailed = {}
    /\ api = [generated_tracks |-> <<>>, track_counter |-> 1,
              tmp_files |-> {}, response |-> NoResponse]
    /\ call = NoCall

\* ------------------------------------------------------ arrival of updates
\* A text message (MessageHandler, filters.TEXT & ~filters.COMMAND).
ArriveText(c, q) ==
    /\ arrivals < MaxUpdates
    /\ Len(pending) < MaxPending
    /\ arrivals' = arrivals + 1
    /\ pending' = Append(pending,
           [kind |-> "text", conv |-> c, query |-> q, index |-> 0,
            shown |-> NoCand, stale |-> FALSE, seen |-> {}])
    /\ UNCHANGED <<api, call>>
    /\ UNCHANGED <<session, screen, fresh, files, h,
                   fetchedDelivered, fetchedSendFailed>>

\* The candidate shown under the button with callback_data dl_<i> of the
\* result message on screen, NoCand when that message has no such button.
ButtonCand(buttons, i) ==
    IF \E k \in 1..Len(buttons) : buttons[k].data = i
    THEN buttons[CHOOSE k \in 1..Len(buttons) : buttons[k].data = i].cand
    ELSE NoCand

\* A callback query dl_<i> (CallbackQueryHandler, pattern "^dl_"): a button
\* of the result message on screen is pressed, or the data is made up.
ArriveSelect(c, i) ==
    /\ arrivals < MaxUpdates
    /\ Len(pending) < MaxPending
    /\ arrivals' = arrivals + 1
    /\ pending' = Append(pending,
           [kind |-> "select", conv |-> c, query |-> <<>>, index |-> i,
            shown |-> ButtonCand(screen[c], i),
            stale |-> (ButtonCand(screen[c], i) # NoCand /\ ~fresh[c]),
            seen |-> {}])
    /\ UNCHANGED <<api, call>>
    /\ UNCHANGED <<session, screen, fresh, files, h,
                   fetchedDelivered, fetchedSendFailed>>

\* ------------------------------------------------ search_and_show_results
\* (a store shared by all conversations instead of one per user)
PutSessionAll(sess, c, list) ==
    [b \in Convs |-> [present |-> TRUE, list |-> list]]

\* context.user_data['search_results'] = ... for the user of conversation c
PutSession(sess, c, list) ==
    [sess EXCEPT ![c] = [present |-> TRUE, list |-> list]]

\* (the list is not reset, the loop appends to the earlier one)
NewResultsKeep(old) == old.list

\* line 142: the list the loop appends to starts empty
NewResults(old) == <<>>

\* (the loop stops one button late)
LimitReachedLate(valid_count) == valid_count > MAX_RESULTS

\* line 186: if valid_count >= 10: break
LimitReached(valid_count) == valid_count >= MAX_RESULTS

\* the loop of lines 148-187 over the resolver's entries
RECURSIVE BuildResults(_, _)
BuildResults(entries, acc) ==
    IF entries = <<>> THEN acc
    ELSE
      LET entry == Head(entries)
          cand == [id |-> entry.id, title |-> entry.title,
                   channel |-> entry.uploader]
          stored == [acc EXCEPT !.results = Append(@, cand),
                                !.valid_count = @ + 1]
          shown == [stored EXCEPT !.buttons =
                      Append(@, [data |-> stored.valid_count - 1,
                                 cand |-> cand])]
      IN  IF entry.null \/ entry.age_limit >= AGE_RESTRICTED
          THEN BuildResults(Tail(entries), acc)
          ELSE IF entry.id = NoId
          THEN BuildResults(Tail(entries), acc)
          ELSE IF entry.title = NoTitle
          THEN [stored EXCEPT !.err = TRUE]        \* title[:35] raises
          ELSE IF LimitReached(shown.valid_count)
          THEN shown
          ELSE BuildResults(Tail(entries), shown)

\* (the length is tested on the text as typed, not on the stripped text)
TooShortUnstripped(text) == Len(text) < MIN_QUERY_LEN

\* lines 104-105: query = text.strip(); len(query) < 2
TooShort(text) == Len(Strip(text)) < MIN_QUERY_LEN

\* lines 142-187: the list and the keyboard built from the entries, for a
\* user whose stored session was old
SearchLoop(entries, old) ==
    BuildResults(entries, [results |-> NewResults(old), buttons |-> <<>>,
                           valid_count |-> 0, err |-> FALSE])

\* The handler is taken up: lines 101-112.
TakeUpText ==
    /\ h.pc \in {"idle", "done"}
    /\ pending # <<>>
    /\ Head(pending).kind = "text"
    /\ pending' = Tail(pending)
    /\ LET u == Head(pending)
           base == [Idle EXCEPT !.kind = "text", !.conv = u.conv]
       IN  IF TooShort(u.query)
           THEN h' = [base EXCEPT !.pc = "done", !.msgs = {"min_length"}]
           ELSE h' = [base EXCEPT !.pc = "searching", !.msgs = {"searching"}]
    /\ UNCHANGED <<api, call>>
    /\ UNCHANGED <<session, screen, fresh, files, arrivals,
                   fetchedDelivered, fetchedSendFailed>>

\* ydl.extract_info raises, or returns None so that search_info.get raises:
\* lines 204-206.
SearchRaises ==
    /\ h.kind = "text" /\ h.pc = "searching"
    /\ h' = [h EXCEPT !.pc = "done", !.msgs = {"search_error"}]
    /\ UNCHANGED <<api, call>>
    /\ UNCHANGED <<session, screen, fresh, files, pending, arrivals,
                   fetchedDelivered, fetchedSendFailed>>

\* Bookkeeping: the waiting presses of buttons of conversation c now refer
\* to a session that has been replaced.
MarkStale(queue, c) ==
    [k \in 1..Len(queue) |->
        IF queue[k].conv = c /\ queue[k].shown # NoCand
        THEN [queue[k] EXCEPT !.stale = TRUE] ELSE queue[k]]

\* (one message for an empty answer and for a failure)
SearchMessageOne(outcome) ==
    CASE outcome = "noresults" -> "search_error"
      [] outcome = "allfiltered" -> "all_restricted"
      [] outcome = "error" -> "search_error"
      [] outcome = "presented" -> "results"

\* the text the searching message is edited to: lines 139, 190, 197, 206
SearchMessage(outcome) ==
    CASE outcome = "noresults" -> "no_results"
      [] outcome = "allfiltered" -> "all_restricted"
      [] outcome = "error" -> "search_error"
      [] outcome = "presented" -> "results"

\* ydl.extract_info returns entries; present = "fail" when the edit_text of
\* the Markdown result message (line 197) raises: lines 137-206.
SearchReturns(entries, present) ==
    /\ h.kind = "text" /\ h.pc = "searching"
    /\ LET c == h.conv
           acc == SearchLoop(entries, session[c])
           outcome == IF entries = <<>> THEN "noresults"
                      ELSE IF acc.err THEN "error"
                      ELSE IF acc.valid_count = 0 THEN "allfiltered"
                      ELSE IF present = "fail" THEN "error"
                      ELSE "presented"
       IN  /\ IF entries = <<>>
              THEN UNCHANGED <<session, fresh, pending>>
              ELSE /\ session' = PutSession(session, c, acc.results)
                   /\ fresh' = [fresh EXCEPT ![c] = (outcome = "presented")]
                   /\ pending' = MarkStale(pending, c)
           /\ screen' = IF outcome = "presented"
                        THEN [screen EXCEPT ![c] = acc.buttons]
                        ELSE screen
           /\ h' = [h EXCEPT !.pc = "done",
                             !.msgs = {SearchMessage(outcome)}]
    /\ UNCHANGED <<api, call>>
    /\ UNCHANGED <<files, arrivals, fetchedDelivered, fetchedSendFailed>>

\* ---------------------------------------------------------- button_callback
\* Python's list[index]: a negative index counts from the end.
InRange(list, index) ==
    /\ index < Len(list)
    /\ 0 - index <= Len(list)

GetItem(list, index) ==
    IF index >= 0 THEN list[index + 1] ELSE list[Len(list) + index + 1]

\* What is left of the handler after send_audio returns: on the cache-hit
\* path it returns (line 227), on the download path msg.delete() (line 239).
Finish(hh) ==
    IF hh.hit THEN [hh EXCEPT !.pc = "done"]
    ELSE [hh EXCEPT !.pc = "done", !.msgs = @ \ {"downloading"}]

\* (the renamed path is sent even when os.rename failed)
SentPathFinal(file_path, final_path, renamed) == final_path

\* lines 259-266: the file is sent from final_path when the rename was
\* done, from file_path when it was not
SentPath(file_path, final_path, renamed) ==
    IF renamed THEN final_path ELSE file_path

\* send_audio up to the reply_audio call (lines 248-268); rename is the
\* outcome of os.rename ("ok" also when the target exists, as on POSIX).
SendAudioBegin(hh, fs, file_path, rename) ==
    IF fs[file_path] = NoFile
    THEN [h |-> Finish(hh), files |-> fs]
    ELSE IF hh.video.title = NoTitle
    THEN [h |-> Finish([hh EXCEPT !.sent = "fail",
                                  !.msgs = @ \cup {"send_failed"}]),
          files |-> fs]
    ELSE
      LET clean_title == safe_title_filename(hh.video.title)
          final_path == clean_title
          renamed == file_path # final_path /\ rename = "ok"
      IN  [h |-> [hh EXCEPT !.pc = "sending", !.clean = clean_title,
                            !.path = SentPath(file_path, final_path,
                                              renamed)],
           files |-> IF renamed
                     THEN [fs EXCEPT ![final_path] = fs[file_path],
                                     ![file_path] = NoFile]
                     ELSE fs]

\* Bookkeeping: the updates waiting while ydl.download starts for id.
MarkSeen(queue, id) ==
    [k \in 1..Len(queue) |-> [queue[k] EXCEPT !.seen = @ \cup {id}]]

\* The handler is taken up: lines 211-232.
TakeUpSelect(rename) ==
    /\ h.pc \in {"idle", "done"}
    /\ pending # <<>>
    /\ Head(pending).kind = "select"
    /\ LET u == Head(pending)
           s == session[u.conv]
           base == [Idle EXCEPT !.kind = "select", !.conv = u.conv,
                      !.index = u.index,
                      !.shown = u.shown, !.noSession = ~s.present,
                      !.sessLen = Len(s.list),
                      !.stale = u.stale]
       IN  IF ~s.present
           THEN /\ h' = [base EXCEPT !.pc = "done", !.raised = "KeyError"]
                /\ pending' = Tail(pending)
                /\ UNCHANGED files
           ELSE IF ~InRange(s.list, u.index)
           THEN /\ h' = [base EXCEPT !.pc = "done", !.raised = "IndexError"]
                /\ pending' = Tail(pending)
                /\ UNCHANGED files
           ELSE
             LET video == GetItem(s.list, u.index)
                 mp3_path == video.id
                 got == [base EXCEPT !.video = video]
             IN  IF files[mp3_path] # NoFile
                 THEN LET r == SendAudioBegin([got EXCEPT !.hit = TRUE],
                                              files, mp3_path, rename)
                      IN  /\ h' = r.h
                          /\ files' = r.files
                          /\ pending' = Tail(pending)
                 ELSE /\ h' = [got EXCEPT !.pc = "fetching",
                                  !.msgs = {"downloading"},
                                  !.dup = (video.id \in u.seen)]
                      /\ pending' = MarkSeen(Tail(pending), video.id)
                      /\ UNCHANGED files
    /\ UNCHANGED <<api, call>>
    /\ UNCHANGED <<session, screen, fresh, arrivals,
                   fetchedDelivered, fetchedSendFailed>>

\* ydl.download produces downloads/<id>.mp3, then send_audio: lines 235-238.
FetchSucceeds(rename) ==
    /\ h.kind = "select" /\ h.pc = "fetching"
    /\ LET id == h.video.id
           r == SendAudioBegin([h EXCEPT !.fetched = "ok"],
                               [files EXCEPT ![id] = id], id, rename)
       IN  /\ h' = r.h
           /\ files' = r.files
    /\ UNCHANGED <<api, call>>
    /\ UNCHANGED <<session, screen, fresh, pending, arrivals,
                   fetchedDelivered, fetchedSendFailed>>

\* ydl.download fails and, under 'ignoreerrors': True (line 58), returns
\* without raising and without a file: lines 235-239, 249-250.
FetchFailsQuietly ==
    /\ h.kind = "select" /\ h.pc = "fetching"
    /\ LET r == SendAudioBegin([h EXCEPT !.fetched = "failed"],
                               files, h.video.id, "ok")
       IN  /\ h' = r.h
           /\ files' = r.files
    /\ UNCHANGED <<api, call>>
    /\ UNCHANGED <<session, screen, fresh, pending, arrivals,
                   fetchedDelivered, fetchedSendFailed>>

\* ydl.download raises: lines 241-243.
FetchRaises ==
    /\ h.kind = "select" /\ h.pc = "fetching"
    /\ h' = [h EXCEPT !.pc = "done", !.fetched = "raised",
                      !.msgs = (@ \ {"downloading"}) \cup {"download_failed"}]
    /\ UNCHANGED <<api, call>>
    /\ UNCHANGED <<session, screen, fresh, files, pending,
                   arrivals, fetchedDelivered, fetchedSendFailed>>

\* reply_audio returns or raises: lines 268-277.
SendReturns(outcome) ==
    /\ h.kind = "select" /\ h.pc = "sending"
    /\ h' = IF outcome = "ok"
            THEN Finish([h EXCEPT !.sent = "ok",
                           !.msgs = @ \cup {"audio"},
                           !.delivered =
                              [audio |-> files[h.path],
                               title |-> Take(h.clean, TAG_MAX),
                               performer |-> h.video.channel]])
            ELSE Finish([h EXCEPT !.sent = "fail",
                           !.msgs = @ \cup {"send_failed"}])
    /\ fetchedDelivered' =
          IF h.fetched = "ok" /\ outcome = "ok"
          THEN fetchedDelivered \cup {h.video.id} ELSE fetchedDelivered
    /\ fetchedSendFailed' =
          IF h.fetched = "ok" /\ outcome = "fail"
          THEN fetchedSendFailed \cup {h.video.id} ELSE fetchedSendFailed
    /\ UNCHANGED <<api, call>>
    /\ UNCHANGED <<session, screen, fresh, files, pending, arrivals>>

RenameOutcomes == {"ok", "error"}

Next ==
    \/ \E c \in Convs, q \in Queries : ArriveText(c, q)
    \/ \E c \in Convs, i \in Indices : ArriveSelect(c, i)
    \/ TakeUpText
    \/ SearchRaises
    \/ \E entries \in ResolverAnswers, present \in {"ok", "fail"} :
          SearchReturns(entries, present)
    \/ \E rename \in RenameOutcomes : TakeUpSelect(rename)
    \/ \E rename \in RenameOutcomes : FetchSucceeds(rename)
    \/ FetchFailsQuietly
    \/ FetchRaises
    \/ \E outcome \in {"ok", "fail"} : SendReturns(outcome)

Spec == Init /\ [][Next]_vars

\* ------------------------------------------------------------- properties
Selecting == h.kind = "select"

FetchInvoked == Selecting /\ h.pc = "fetching"

\* C1: once a selection of source id X has been fetched and delivered, no
\* later selection of X invokes ydl.download again (it is a cache hit).
CacheHitNoRefetch ==
    ~(FetchInvoked /\ h.video.id \in fetchedDelivered)

\* C2: a selection that was already waiting when a download of its source
\* id was started shares that download; ydl.download is not invoked for it
\* a second time.
FetchDedup ==
    ~(Selecting /\ h.dup)

\* C3: a selection in a conversation with no stored session ends without an
\* exception, without fetch or delivery, and with a 'search again' message.
NoSessionFailsCleanly ==
    (Selecting /\ h.pc = "done" /\ h.noSession)
        => /\ h.raised = "none"
           /\ "search_again" \in h.msgs
           /\ h.fetched = "no" /\ h.sent = "no"

\* C4: a selection dl_<i> with i outside [0, N) of a stored session of
\* length N (every negative i included) resolves to no candidate and starts
\* neither a fetch nor a delivery.
InvalidIndexResolvesNothing ==
    (Selecting /\ ~h.noSession /\ (h.index < 0 \/ h.index >= h.sessLen))
        => /\ h.video = NoCand
           /\ h.pc \notin {"fetching", "sending"}
           /\ h.fetched = "no" /\ h.sent = "no"

\* C5: a selection whose fetch failed (no artifact produced) ends with the
\* 'download failed' message shown to the user.
FetchFailureNotified ==
    (Selecting /\ h.pc = "done" /\ h.fetched \in {"failed", "raised"})
        => "download_failed" \in h.msgs

\* C6: after a fetch of X succeeded and the send of the artifact failed, X
\* stays cached: no later selection of X invokes ydl.download again.
DeliveryFailedKeepsCache ==
    ~(FetchInvoked /\ h.video.id \in fetchedSendFailed)

\* C7: a press of a button issued under a session that has since been
\* replaced is never resolved to a candidate other than the one that was
\* shown under that button.
StaleSelectionNotMisresolved ==
    (Selecting /\ h.stale) => (h.video = NoCand \/ h.video = h.shown)

SessionIsolation ==
    [][/\ \A b \in Convs :
            session'[b] # session[b] => (h.kind = "text" /\ h.conv = b)
       /\ (h'.kind = "select" /\ h'.video # NoCand)
            => \E k \in 1..Len(session'[h'.conv].list) :
                  session'[h'.conv].list[k] = h'.video]_vars

\* C9 witness: both conversations hold a session, the two differ, and a
\* selection of one of them has ended in a fetch failure.
TwoSessionsOneFailedFetch ==
    /\ \A c \in Convs : session[c].present /\ session[c].list # <<>>
    /\ \E a, b \in Convs : session[a] # session[b]
    /\ Selecting /\ h.pc = "done" /\ h.fetched \in {"failed", "raised"}

\* C10: while a fetch is in progress for one conversation, an update of
\* another conversation that is waiting can be taken up.
NonBlockingFetch ==
    (FetchInvoked /\ pending # <<>> /\ Head(pending).conv # h.conv)
        => ENABLED (TakeUpText \/ \E rename \in RenameOutcomes :
                                    TakeUpSelect(rename))

\* ------------------------------------------- the search handler on its own
\* Texts a user can send: filters.TEXT (line 368) passes no empty text.
QueryTexts == {<<" ">>, <<"a">>, <<" ", " ">>, <<" ", "a", " ">>,
               <<"a", "b">>, <<"a", " ", "b">>}

EntryTeen == [null |-> FALSE, id |-> IdB, title |-> <<"y">>,
              uploader |-> "u2", age_limit |-> 17]

NextSearch ==
    \/ \E q \in QueryTexts : ArriveText("c1", q)
    \/ TakeUpText
    \/ SearchRaises
    \/ \E entries \in ResolverAnswers \cup {<<EntryTeen>>},
          present \in {"ok", "fail"} : SearchReturns(entries, present)

SpecSearch == Init /\ [][NextSearch]_vars

\* C11: a text whose stripped form has fewer than 2 characters (none
\* included) is answered with the minimum-length message without the search
\* being started, and no conversation's stored session changes.
MinLengthRejected ==
    [][ ( /\ h.pc \in {"idle", "done"}
          /\ pending # <<>>
          /\ Head(pending).kind = "text"
          /\ Len(Strip(Head(pending).query)) < 2
          /\ pending' = Tail(pending) )
        => ( /\ h'.kind = "text"
             /\ h'.pc = "done"
             /\ h'.msgs = {"min_length"}
             /\ session' = session ) ]_vars

ShortQueryRejected ==
    /\ h.kind = "text" /\ h.pc = "done" /\ h.msgs = {"min_length"}
    /\ session[h.conv].present
    /\ session[h.conv].list # <<>>

\* ---------------------------------------------- the loop over the entries
\* n entries that pass every test of the loop, A and B in turn
Passing(n) == [k \in 1..n |-> IF k % 2 = 1 THEN EntryA ELSE EntryB]

\* Answers of up to 15 entries (ytsearch15, line 133): short ones, and ones
\* that reach the limit of MAX_RESULTS buttons.
LongAnswers ==
    {Passing(n) \o tail : n \in {0, MAX_RESULTS - 1, MAX_RESULTS},
                          tail \in SeqsUpTo(Catalog \cup {EntryTeen}, MaxTail)}

\* what context.user_data holds for the user when the search starts
OldSessions ==
    {NoSession,
     [present |-> TRUE,
      list |-> << [id |-> IdB, title |-> <<"x">>, channel |-> "u2"] >>]}

\* lines 142-187 run on one answer of the resolver
CallSearchLoop(entries, old) ==
    /\ call.fn = "none"          \* one call in a behaviour
    /\ call' = [fn |-> "search_loop", arg |-> entries,
                result |-> SearchLoop(entries, old)]
    /\ UNCHANGED <<session, screen, fresh, files, pending, arrivals, h,
                   fetchedDelivered, fetchedSendFailed, api>>

NextLoop ==
    \E entries \in LongAnswers, old \in OldSessions :
        CallSearchLoop(entries, old)

SpecLoop == Init /\ [][NextLoop]_vars

\* the entries with a usable id that are not age-restricted, in the order of
\* the answer, as candidates
Eligible(entries) ==
    LET ok == SelectSeq(entries,
                LAMBDA e : ~e.null /\ e.id # NoId /\ e.age_limit < 18)
    IN  [k \in 1..Len(ok) |->
            [id |-> ok[k].id, title |-> ok[k].title,
             channel |-> ok[k].uploader]]

\* C12: when the loop ends without an error and with at least one
\* candidate, the stored list is the first at most 10 eligible entries of
\* the answer in the answer's order, and the buttons dl_0, dl_1, ... show
\* the same candidates in the same order.
FilterOrderCap ==
    (call.fn = "search_loop" /\ ~call.result.err
        /\ call.result.valid_count > 0)
    => LET want == Take(Eligible(call.arg), 10)
           got == call.result
       IN  /\ got.results = want
           /\ Len(got.buttons) = Len(want)
           /\ \A k \in 1..Len(want) :
                 /\ got.buttons[k].cand = want[k]
                 /\ got.buttons[k].data = k - 1

FilteredAndCapped ==
    /\ call.fn = "search_loop" /\ ~call.result.err
    /\ Len(Eligible(call.arg)) > 10
    /\ Len(call.arg) > Len(Eligible(call.arg))
    /\ Len(call.result.results) = 10

\* C13: a search whose resolver call returns no entry, or only entries that
\* are skipped, ends with one of the two no-match messages; a search whose
\* resolver call raises ends with the error message; the messages differ and
\* in neither case is a result message presented.
NoResultsNotOutage ==
    [][ /\ SearchRaises
           => (h'.msgs = {"search_error"} /\ screen' = screen)
        /\ \A entries \in ResolverAnswers \cup {<<EntryTeen>>},
              present \in {"ok", "fail"} :
              (SearchReturns(entries, present) /\ Eligible(entries) = <<>>)
              => /\ h'.msgs \in {{"no_results"}, {"all_restricted"}}
                 /\ screen' = screen ]_vars

OnlyRestrictedFound ==
    /\ h.kind = "text" /\ h.pc = "done" /\ h.msgs = {"all_restricted"}
    /\ screen[h.conv] # NoScreen

\* ------------------------------------------------------------- FastAPI.py
DURATION_MIN == 5
DURATION_MAX == 120

Durations == {DURATION_MIN - 1, DURATION_MIN, DURATION_MAX, DURATION_MAX + 1}

\* lines 161-171: except Exception as e: return MusicResponse(success=False,
\* ...), a returned value, which the framework sends with status 200
ErrorResponse(duration, e) ==
    [path |-> "/generate", requested |-> duration, status |-> 200,
     success |-> FALSE, duration |-> 0]

\* POST /generate: lines 117-171. write is the outcome of writing the
\* temporary file (lines 130-132).
Generate(duration, write) ==
    /\ api.track_counter <= MaxTracks
    /\ IF duration < DURATION_MIN \/ duration > DURATION_MAX
       THEN api' = [api EXCEPT
                      !.response = ErrorResponse(duration, "HTTPException(400)")]
       ELSE IF write = "fail"
       THEN api' = [api EXCEPT
                      !.track_counter = @ + 1,
                      !.response = ErrorResponse(duration, "OSError")]
       ELSE api' = [api EXCEPT
                      !.track_counter = @ + 1,
                      !.tmp_files = @ \cup {api.track_counter},
                      !.generated_tracks =
                          Append(@, [id |-> api.track_counter,
                                     duration |-> duration,
                                     file_path |-> api.track_counter]),
                      !.response = [path |-> "/generate",
                                    requested |-> duration, status |-> 200,
                                    success |-> TRUE, duration |-> duration]]
    /\ UNCHANGED <<session, screen, fresh, files, pending, arrivals, h,
                   fetchedDelivered, fetchedSendFailed, call>>

\* GET /audio/{track_id}: lines 173-188
GetAudio(track_id) ==
    /\ api' = [api EXCEPT !.response =
                 [path |-> "/audio", requested |-> track_id,
                  status |-> IF \E k \in 1..Len(api.generated_tracks) :
                                   api.generated_tracks[k].id = track_id
                             THEN 200 ELSE 404,
                  success |-> FALSE, duration |-> 0]]
    /\ UNCHANGED <<session, screen, fresh, files, pending, arrivals, h,
                   fetchedDelivered, fetchedSendFailed, call>>

NextApi ==
    \/ \E duration \in Durations, write \in {"ok", "fail"} :
          Generate(duration, write)
    \/ \E track_id \in 1..MaxTracks : GetAudio(track_id)

SpecApi == Init /\ [][NextApi]_vars

\* C14: a POST /generate whose duration is below 5 or above 120 is answered
\* with a 4xx status, stores no track, leaves the track counter as it was
\* and writes no file.
DurationRejected4xx ==
    [][ \A duration \in Durations, write \in {"ok", "fail"} :
          (Generate(duration, write) /\ (duration < 5 \/ duration > 120))
          => /\ api'.response.status \in 400..499
             /\ api'.generated_tracks = api.generated_tracks
             /\ api'.track_counter = api.track_counter
             /\ api'.tmp_files = api.tmp_files ]_vars

\* ---------------------------------------------------- safe_title_filename
\* one Latin letter, one character of another script (U+8A9E), one
\* forbidden character and two kinds of whitespace
Alphabet == {"k", "U+8A9E", "/", " ", "\t"}

Fill(n) == [k \in 1..n |-> "k"]

\* titles of a few characters, and the same after a run of letters that
\* brings them to the limit of FILENAME_MAX characters
Titles ==
    SeqsUpTo(Alphabet, MaxTitleLen) \cup
    {Fill(n) \o t : n \in {FILENAME_MAX - 2, FILENAME_MAX - 1},
                    t \in SeqsUpTo(Alphabet, MaxTitleLen)}

\* safe_title_filename(title) is called: line 252
CallSanitizer(title) ==
    /\ call.fn = "none"          \* one call in a behaviour
    /\ call' = [fn |-> "safe_title_filename", arg |-> title,
                result |-> safe_title_filename(title)]
    /\ UNCHANGED <<session, screen, fresh, files, pending, arrivals, h,
                   fetchedDelivered, fetchedSendFailed, api>>

NextSanitizer == \E title \in Titles : CallSanitizer(title)

SpecSanitizer == Init /\ [][NextSanitizer]_vars

\* the characters of s that are neither forbidden nor whitespace, in order
Kept(s) ==
    SelectSeq(s, LAMBDA ch :
        ch \notin {"\\", "/", ":", "*", "?", "\"", "<", ">", "|",
                   " ", "\t", "\n"})

\* C15: the sanitized name contains none of \ / : * ? " < > | ; when the
\* title has characters that are neither forbidden nor whitespace, the
\* name's non-whitespace characters are those characters in their order,
\* all of them unless the name was cut at 80 characters.
SanitizerDenylist ==
    call.fn = "safe_title_filename"
    => /\ \A k \in 1..Len(call.result) :
             call.result[k] \notin {"\\", "/", ":", "*", "?", "\"", "<", ">", "|"}
       /\ Kept(call.arg) # <<>>
             => /\ Kept(call.result)
                    = Take(Kept(call.arg), Len(Kept(call.result)))
                /\ Len(call.result) < 80
                      => Kept(call.result) = Kept(call.arg)

OtherScriptKeptAndCut ==
    /\ call.fn = "safe_title_filename"
    /\ \E k \in 1..Len(call.arg) : call.arg[k] = "/"
    /\ \E k \in 1..Len(call.result) : call.result[k] = "U+8A9E"
    /\ Len(Kept(call.arg)) > 80
    /\ Len(call.result) = 80

\* C16: the sanitized name is not empty, has at most 80 characters, neither
\* starts nor ends with whitespace, has no two whitespace characters in a
\* row, and is "audio" exactly when the title has no character that is
\* neither forbidden nor whitespace.
SanitizerBounds ==
    call.fn = "safe_title_filename"
    => LET out == call.result
       IN  /\ out # <<>>
           /\ Len(out) <= 80
           /\ out[1] \notin {" ", "\t", "\n"}
           /\ out[Len(out)] \notin {" ", "\t", "\n"}
           /\ \A k \in 1..(Len(out) - 1) :
                 ~(out[k] \in {" ", "\t", "\n"}
                     /\ out[k + 1] \in {" ", "\t", "\n"})
           /\ (out = <<"a", "u", "d", "i", "o">>) <=> (Kept(call.arg) = <<>>)

\* ------------------------------------------------- one conversation alone
\* every update comes from the same user
NextOneUser ==
    \/ \E q \in Queries : ArriveText("c1", q)
    \/ \E i \in Indices : ArriveSelect("c1", i)
    \/ TakeUpText
    \/ SearchRaises
    \/ \E entries \in ResolverAnswers, present \in {"ok", "fail"} :
          SearchReturns(entries, present)
    \/ \E rename \in RenameOutcomes : TakeUpSelect(rename)
    \/ \E rename \in RenameOutcomes : FetchSucceeds(rename)
    \/ FetchFailsQuietly
    \/ FetchRaises
    \/ \E outcome \in {"ok", "fail"} : SendReturns(outcome)

SpecOneUser == Init /\ [][NextOneUser]_vars

SessionIsPresentedList ==
    \A c \in Convs :
        session[c].list =
            [k \in 1..Len(screen[c]) |-> screen[c][k].cand]

\* C19: a file at the path of an id holds the audio fetched for that id,
\* and every delivery carries the audio of the selected candidate's id.
CacheHoldsOwnAudio ==
    /\ \A id \in Ids : files[id] \in {NoFile, id}
    /\ (Selecting /\ h.sent = "ok") => h.delivered.audio = h.video.id
====
